---- MODULE Spec2Model ----
(***************************************************************************)
(* PDF-to-Word conversion: the extraction flow with its model fallback     *)
(* (pdfToWordFlow), the top-level action with its no-AI fallback           *)
(* (pdfToWord) and the assembly of the extraction result into the docx     *)
(* block sequence.                                                         *)
(*                                                                         *)
(* Conventions.  A string is a sequence of tokens, concatenation is \o.    *)
(* An optional value is a set: {} when absent, {v} when present.           *)
(* Each awaited external call (the two prompts, the no-AI converter, the   *)
(* packer) is one call in `calls`, resolved by its own action.             *)
(***************************************************************************)
EXTENDS Integers, Sequences, FiniteSets, TLC

VARIABLES
    input,       \* the PdfToWordInput of the request
    pc,          \* position of pdfToWord / pdfToWordFlow in its code
    calls,       \* external call -> "idle" | "inflight" | "returned"
    resp,        \* external call -> what that call answered (optional)
    err,         \* pdfToWordFlow: value caught by the outer catch (optional)
    err2,        \* pdfToWordFlow: value caught by the inner catch (optional)
    result,      \* pdfToWord: `result`, the value the flow returned (optional)
    e,           \* pdfToWord: `e`, the value the flow threw (optional)
    children,    \* pdfToWord: children of the Document section (optional)
    outcome,     \* what pdfToWord returned or threw to its caller
    file,        \* content of data/api-keys.json (optional: absent at first)
    nextId,      \* number of ids generateId has handed out
    last,        \* the last store call: its name, arguments and return value
    leaked,      \* key values reported leaked and not unflagged or re-added since
    procs,       \* server process -> the store call it is in the middle of
    flaggedIds,  \* ids of the records a completed disableGeminiKeyByValue returned
    staleWrite   \* some process wrote a store it had read before another's write

pipeVars == <<input, pc, calls, resp, err, err2, result, e, children, outcome>>
storeVars == <<file, nextId, last, leaked, procs, flaggedIds, staleWrite>>
vars == <<pipeVars, storeVars>>

----------------------------------------------------------------------------
(* Bounds *)

MaxStruct == 2      \* longest `structure` array a model answers
MaxContent == 2     \* longest `content` array a model answers
MaxAdds == 2        \* number of addGeminiKey calls
MaxHour == 1        \* last clock hour getRotatingGeminiKey is asked about

----------------------------------------------------------------------------
(* Optional values and strings *)

None == {}
Some(x) == {x}
IsSome(o) == o # {}
Get(o) == CHOOSE x \in o : TRUE

SeqsUpTo(S, n) == UNION {[1..k -> S] : k \in 0..n}

RECURSIVE Concat(_)
\* Array.prototype.flat() over an array of arrays, and string concatenation
\* of a sequence of strings.
Concat(ss) == IF ss = <<>> THEN <<>> ELSE Head(ss) \o Concat(Tail(ss))

RECURSIVE Join(_, _)
\* Array.prototype.join(sep)
Join(items, sep) ==
    IF items = <<>> THEN <<>>
    ELSE IF Len(items) = 1 THEN Head(items)
    ELSE Head(items) \o sep \o Join(Tail(items), sep)

\* String.prototype.substring(1)
Substring1(s) == IF s = <<>> THEN <<>> ELSE Tail(s)

----------------------------------------------------------------------------
(* The extraction schema *)

StructTypes ==
    {"heading", "paragraph", "list", "table", "image", "section_break", "page_break"}

ContentItem(text, bold, italic, color, fontSize) ==
    [text |-> text, bold |-> bold, italic |-> italic, color |-> color,
     fontSize |-> fontSize]

StructNode(type, level, items, rows, imageDescription, position) ==
    [type |-> type, level |-> level, items |-> items, rows |-> rows,
     imageDescription |-> imageDescription, position |-> position]

Position(x, y, page) == [x |-> x, y |-> y, page |-> page]

\* The schema of a prompt's output: zod checks the structure types against the
\* enum (the other fields are typed by construction in this model).
OutputSchemaValid(data) ==
    \A i \in 1..Len(data.structure) : data.structure[i].type \in StructTypes

----------------------------------------------------------------------------
(* docx building blocks *)

TextRun(text, bold, italics, color, size) ==
    [text |-> text, bold |-> bold, italics |-> italics, color |-> color,
     size |-> size]

PlainRun(text) == TextRun(text, None, None, None, None)

\* new Paragraph({heading, children}) and new Table({rows}) as one record shape
Paragraph(heading, runs) ==
    [kind |-> "paragraph", heading |-> heading, children |-> runs, rows |-> <<>>]

TableCell(cells) == [children |-> cells]
TableRow(cells) == [children |-> cells]
Table(rows) ==
    [kind |-> "table", heading |-> None, children |-> <<>>, rows |-> rows]

\* HeadingLevel[`HEADING_${n}`]: the enum has HEADING_1 .. HEADING_6 (and
\* TITLE); any other key looks up undefined.
HeadingLevel(n) == IF n \in 1..6 THEN Some(n) ELSE None

----------------------------------------------------------------------------
(* Assembly, pdfToWord lines 204-308 *)

DefaultSize == 22
HeadingBaseSize == 24

\* item.fontSize ? item.fontSize * 2 : 22
RunSize(item) ==
    IF IsSome(item.fontSize) /\ Get(item.fontSize) # 0
    THEN Get(item.fontSize) * 2
    ELSE DefaultSize

\* item.color?.substring(1)
RunColor(item) ==
    IF IsSome(item.color) THEN Some(Substring1(Get(item.color))) ELSE None

\* one Paragraph per content item
ContentParagraph(item) ==
    Paragraph(None,
        <<TextRun(item.text, item.bold, item.italic, RunColor(item),
                  Some(RunSize(item)))>>)

\* struct.level || 1
LevelOrOne(struct) ==
    IF IsSome(struct.level) /\ Get(struct.level) # 0 THEN Get(struct.level) ELSE 1

\* struct.items?.join(' ') || ''
ItemsText(struct) ==
    IF IsSome(struct.items) THEN Join(Get(struct.items), <<" ">>) ELSE <<>>

HeadingBlock(struct) ==
    Paragraph(HeadingLevel(LevelOrOne(struct)),
        <<TextRun(ItemsText(struct), Some(TRUE), None, None,
                  Some(HeadingBaseSize - LevelOrOne(struct) * 2))>>)

ListBlock(struct) ==
    Paragraph(None,
        IF IsSome(struct.items)
        THEN [i \in 1..Len(Get(struct.items)) |->
                 PlainRun(<<"bullet ">> \o Get(struct.items)[i] \o <<"\n">>)]
        ELSE <<>>)

\* mutant: short rows padded with empty cells to the width of the first row
TableRowsPadded(rows) ==
    [r \in 1..Len(rows) |->
        TableRow([c \in 1..(IF Len(rows[r]) < Len(rows[1])
                            THEN Len(rows[1]) ELSE Len(rows[r])) |->
            TableCell(<<Paragraph(None,
                <<PlainRun(IF c <= Len(rows[r]) THEN rows[r][c] ELSE <<>>)>>)>>)])]

TableRows(rows) ==
    [r \in 1..Len(rows) |->
        TableRow([c \in 1..Len(rows[r]) |->
            TableCell(<<Paragraph(None, <<PlainRun(rows[r][c])>>)>>)])]

ImageBlock(struct) ==
    Paragraph(None,
        <<TextRun(<<"[Image: ">>
                    \o (IF IsSome(struct.imageDescription)
                           /\ Get(struct.imageDescription) # <<>>
                        THEN Get(struct.imageDescription)
                        ELSE <<"Visual content">>)
                    \o <<"]">>,
                  None, Some(TRUE), Some(<<"0000FF">>), None)>>)

PageBreakBlock == Paragraph(None, <<PlainRun(<<"\f">>)>>)

\* mutant: the items joined without the separating space
DefaultBlockUnjoined(struct) ==
    Paragraph(None,
        <<PlainRun(IF IsSome(struct.items) THEN Concat(Get(struct.items)) ELSE <<>>)>>)

DefaultBlock(struct) == Paragraph(None, <<PlainRun(ItemsText(struct))>>)

\* The callback of result.structure.map: what one node maps to.  A block is
\* returned as a one-element array, the empty table's `[]` as the empty
\* array, so that flat() is Concat.
StructBlocks(struct) ==
    CASE struct.type = "heading" -> <<HeadingBlock(struct)>>
      [] struct.type = "list" -> <<ListBlock(struct)>>
      [] struct.type = "table" ->
            IF IsSome(struct.rows) /\ Len(Get(struct.rows)) > 0
            THEN <<Table(TableRows(Get(struct.rows)))>>
            ELSE <<>>
      [] struct.type = "image" -> <<ImageBlock(struct)>>
      [] struct.type = "page_break" -> <<PageBreakBlock>>
      [] OTHER -> <<DefaultBlock(struct)>>

\* result.content.map(...)
paragraphs(res) == [i \in 1..Len(res.content) |-> ContentParagraph(res.content[i])]

\* result.structure?.map(...).flat() || []
structuredContent(res) ==
    Concat([i \in 1..Len(res.structure) |-> StructBlocks(res.structure[i])])

\* mutant: the content paragraphs spread first
SectionChildrenContentFirst(res) == paragraphs(res) \o structuredContent(res)

\* children: [...structuredContent, ...paragraphs]
SectionChildren(res) == structuredContent(res) \o paragraphs(res)

----------------------------------------------------------------------------
(* Thrown values and messages *)

\* new Error(message)
Error(message) ==
    [isError |-> TRUE, message |-> message, str |-> <<"Error: ">> \o message]

\* a thrown value that is no Error (a bare string): it has no .message
ThrownString(s) == [isError |-> FALSE, message |-> <<>>, str |-> s]

\* err instanceof Error ? err.message : String(err)
ErrText(v) == IF v.isError THEN v.message ELSE v.str

AiFailedMsg == <<"The AI failed to process the PDF content.">>
AiFailedFallbackMsg == <<"The AI failed to process the PDF content (fallback).">>
SchemaErrorMsg == <<"Schema validation failed.">>
Hint ==
    <<"Verify your API key is valid and enabled, and that outbound network access to generativelanguage.googleapis.com is allowed.">>
FallbackUnavailableMsg ==
    <<"AI conversion failed and fallback converter was not available.">>

\* mutant: the two attempt messages interpolated the other way round
FlowFailureMessageSwapped(m1, m2) ==
    <<"Gemini request failed: ">> \o m2 \o <<". Fallback model also failed: ">>
        \o m1 \o <<". ">> \o Hint

\* the message of the Error thrown at lines 172-175
FlowFailureMessage(m1, m2) ==
    <<"Gemini request failed: ">> \o m1 \o <<". Fallback model also failed: ">>
        \o m2 \o <<". ">> \o Hint

\* e?.message || 'AI conversion failed and fallback converter was not available.'
MessageOrDefault(v) == IF v.message # <<>> THEN v.message ELSE FallbackUnavailableMsg

----------------------------------------------------------------------------
(* What the external collaborators can answer *)

ContentItems ==
    { ContentItem(<<"Hello">>, Some(TRUE), None, Some(<<"#", "FF0000">>), Some(12)),
      ContentItem(<<"world">>, None, Some(TRUE), None, None),
      ContentItem(<<>>, Some(FALSE), Some(FALSE), Some(<<"F", "F0000">>), Some(0)) }

Nodes ==
    { StructNode("heading", None, Some(<<<<"a">>, <<"b">>>>), None, None,
                 Some(Position(None, None, Some(2)))),
      StructNode("heading", Some(0), None, None, None, None),
      StructNode("heading", Some(3), Some(<<<<"a">>>>), None, None, None),
      StructNode("heading", Some(7), Some(<<<<"a">>>>), None, None, None),
      StructNode("paragraph", None, Some(<<<<"a">>, <<"b">>>>), None, None,
                 Some(Position(Some(0), Some(0), Some(1)))),
      StructNode("list", None, Some(<<<<"a">>, <<"b">>>>), None, None, None),
      StructNode("table", None, None, Some(<<<<<<"a">>, <<"b">>>>, <<<<"c">>>>>>),
                 None, None),
      StructNode("table", None, None, Some(<<>>), None, None),
      StructNode("table", None, None, None, None, None),
      StructNode("image", None, None, None, None, None),
      StructNode("page_break", None, None, None, None, None),
      StructNode("section_break", None, None, None, None, None) }

\* the schema-valid extraction results
Results ==
    { [content |-> c, structure |-> s] :
        c \in SeqsUpTo(ContentItems, MaxContent), s \in SeqsUpTo(Nodes, MaxStruct) }

EmptyResult == [content |-> <<>>, structure |-> <<>>]

\* a payload the output schema rejects: a structure type outside the enum
InvalidResult ==
    [content |-> <<>>,
     structure |-> <<StructNode("footer", None, Some(<<<<"a">>>>), None, None, None)>>]

\* a model call either throws, answers nothing usable, or answers a payload
Throws(v) == [kind |-> "throw", thrown |-> v, data |-> EmptyResult]
NoData == [kind |-> "nodata", thrown |-> Error(<<>>), data |-> EmptyResult]
Data(d) == [kind |-> "data", thrown |-> Error(<<>>), data |-> d]

ModelThrown == {Error(<<"quota exceeded">>), ThrownString(<<"boom">>)}

ModelResponses ==
    {Throws(v) : v \in ModelThrown} \cup {NoData}
        \cup {Data(d) : d \in Results \cup {InvalidResult}}

DocxPrefix ==
    "data:application/vnd.openxmlformats-officedocument.wordprocessingml.document;base64,"

\* new Document({sections: [{properties: {}, children}]})
Document(blocks) == [producer |-> "docx", sections |-> <<blocks>>]

\* { docxUri }
Output(doc) == [docxUri |-> [prefix |-> DocxPrefix, base64 |-> doc]]

NoOcrOutputs == {Output([producer |-> "libreoffice", sections |-> <<>>])}
NoOcrThrown == {Error(<<"soffice not found">>), ThrownString(<<"ENOENT">>)}

Returns(out) == [kind |-> "return", thrown |-> Error(<<>>), output |-> out]
Rejects(v) ==
    [kind |-> "throw", thrown |-> v,
     output |-> Output([producer |-> "libreoffice", sections |-> <<>>])]

NoOcrResponses ==
    {Returns(o) : o \in NoOcrOutputs} \cup {Rejects(v) : v \in NoOcrThrown}

Inputs ==
    {[pdfUri |-> <<"data:application/pdf;base64,">>, conversionMode |-> m] :
        m \in {"ocr", "no_ocr"}}

----------------------------------------------------------------------------
(* pdfToWordFlow, lines 153-178 *)

\* What `await prompt({pdfUri})` yields for a model response: the prompt
\* declares its output schema, so a payload the schema rejects is an error of
\* the call; an answer with no usable payload resolves with output null.
PromptCall(r) ==
    CASE r.kind = "throw" -> [threw |-> TRUE, err |-> r.thrown, output |-> None]
      [] r.kind = "nodata" -> [threw |-> FALSE, err |-> Error(<<>>), output |-> None]
      [] OTHER ->
            IF OutputSchemaValid(r.data)
            THEN [threw |-> FALSE, err |-> Error(<<>>), output |-> Some(r.data)]
            ELSE [threw |-> TRUE, err |-> Error(SchemaErrorMsg), output |-> None]

\* mutant: the `if (!output) throw` check left out
AttemptErrorNoNullCheck(a, msg) == IF a.threw THEN Some(a.err) ELSE None

\* The body of a try block: the value its catch receives, if any.  The await
\* throws, or `if (!output) throw new Error(msg)`.
AttemptError(a, msg) ==
    IF a.threw THEN Some(a.err)
    ELSE IF a.output = None THEN Some(Error(msg))
    ELSE None

\* mutant: the primary's `return output` left out, so the attempt always
\* falls into the catch
TryPrimaryNoReturn(a) == Some(IF a.threw THEN a.err ELSE Error(AiFailedMsg))

\* mutant: the check inverted, `if (output) throw`
TryPrimaryInverted(a) ==
    IF a.threw THEN Some(a.err)
    ELSE IF a.output # None THEN Some(Error(AiFailedMsg))
    ELSE None

\* lines 155-161, the primary attempt
TryPrimary(a) == AttemptError(a, AiFailedMsg)

\* mutant: the secondary's `return output` left out
TrySecondaryNoReturn(a) ==
    Some(IF a.threw THEN a.err ELSE Error(AiFailedFallbackMsg))

\* mutant: the check inverted, `if (output) throw`
TrySecondaryInverted(a) ==
    IF a.threw THEN Some(a.err)
    ELSE IF a.output # None THEN Some(Error(AiFailedFallbackMsg))
    ELSE None

\* lines 163-169, the secondary attempt
TrySecondary(a) == AttemptError(a, AiFailedFallbackMsg)

\* lines 170-175: the Error the flow throws when both attempts failed
FlowError(caught, caught2) == Error(FlowFailureMessage(ErrText(caught), ErrText(caught2)))

----------------------------------------------------------------------------
(* apiKeysStore.ts: the key store *)

HourMs == 3600000
MinuteMs == 60000

Procs == {1, 2}
KeyValues == {<<"AIza-1">>, <<"AIza-2">>}
Ids == 1..MaxAdds
Times == {h * HourMs + m : h \in 0..MaxHour, m \in {0, MinuteMs, HourMs - 1}}
Strategies == {"hourly", "minute"}

\* defaultStore, lines 28-35
defaultStore == [gemini |-> <<>>, rotation |-> [enabled |-> TRUE, strategy |-> "hourly"]]

\* ensureStore, lines 37-69: a missing file becomes the default store, an
\* existing one is rewritten with its rotation normalised
ensureStore(f) ==
    IF f = None THEN defaultStore
    ELSE [gemini |-> Get(f).gemini,
          rotation |->
             [enabled |-> (Get(f).rotation.enabled = TRUE),
              strategy |-> IF Get(f).rotation.strategy = "minute"
                           THEN "minute" ELSE "hourly"]]

\* readStore, lines 71-80
readStore(f) == ensureStore(f)

\* Array.prototype.findIndex on a list of booleans, 1-based; 0 when none holds
FindIndex(tests) ==
    IF \E i \in 1..Len(tests) : tests[i]
    THEN CHOOSE i \in 1..Len(tests) : tests[i] /\ \A j \in 1..(i - 1) : ~tests[j]
    ELSE 0

\* find(k => k.id === id), lines 126 and 194
IndexOfId(store, id) ==
    FindIndex([i \in 1..Len(store.gemini) |-> store.gemini[i].id = id])

\* findIndex(k => k.key === key), line 183
IndexOfKey(store, key) ==
    FindIndex([i \in 1..Len(store.gemini) |-> store.gemini[i].key = key])

\* what a store function leaves in the file and what it returns
Effect(store, ret) == [store |-> store, ret |-> ret]

\* the ApiKeyRecord addGeminiKey builds, lines 103-110; flagged is not set
NewRecord(id, key) ==
    [id |-> id, provider |-> "gemini", key |-> key, label |-> None,
     createdAt |-> id, enabled |-> TRUE, flagged |-> None]

\* addGeminiKey, lines 101-114
addGeminiKey(store, id, key) ==
    Effect([store EXCEPT !.gemini = Append(@, NewRecord(id, key))],
           Some(NewRecord(id, key)))

\* mutant: the last record is dropped when the id matches none
deleteGeminiKeyPop(store, id) ==
    LET kept == SelectSeq(store.gemini, LAMBDA k : k.id # id)
    IN  IF Len(kept) = Len(store.gemini) /\ Len(kept) > 0
        THEN Effect([store EXCEPT !.gemini = SubSeq(kept, 1, Len(kept) - 1)], TRUE)
        ELSE Effect([store EXCEPT !.gemini = kept], Len(kept) < Len(store.gemini))

\* deleteGeminiKey, lines 116-122
deleteGeminiKey(store, id) ==
    LET kept == SelectSeq(store.gemini, LAMBDA k : k.id # id)
    IN  Effect([store EXCEPT !.gemini = kept], Len(kept) < Len(store.gemini))

\* setGeminiKeyEnabled, lines 124-131
setGeminiKeyEnabled(store, id, enabled) ==
    LET i == IndexOfId(store, id)
    IN  IF i = 0 THEN Effect(store, None)
        ELSE LET found == [store.gemini[i] EXCEPT !.enabled = enabled]
             IN  Effect([store EXCEPT !.gemini[i] = found], Some(found))

\* setGeminiRotationEnabled, lines 138-143
setGeminiRotationEnabled(store, enabled) ==
    Effect([store EXCEPT !.rotation.enabled = enabled],
           [store.rotation EXCEPT !.enabled = enabled])

\* setGeminiRotationStrategy, lines 145-150
setGeminiRotationStrategy(store, strategy) ==
    Effect([store EXCEPT !.rotation.strategy = strategy],
           [store.rotation EXCEPT !.strategy = strategy])

\* mutant: the flag left out of the filter
EligibleKeysIgnoringFlag(store) == SelectSeq(store.gemini, LAMBDA k : k.enabled)

\* store.providers.gemini.filter(k => k.enabled && !k.flagged), line 154
EligibleKeys(store) ==
    SelectSeq(store.gemini, LAMBDA k : k.enabled /\ k.flagged # Some(TRUE))

\* mutant: the two bucket lengths the wrong way round
BaseIndexSwapped(strategy, time) ==
    IF strategy = "minute" THEN time \div HourMs ELSE time \div MinuteMs

\* lines 160-162: Math.floor(date.getTime() / bucket)
BaseIndex(strategy, time) ==
    IF strategy = "minute" THEN time \div MinuteMs ELSE time \div HourMs

\* getRotatingGeminiKey, lines 152-165
getRotatingGeminiKey(store, time) ==
    LET keys == EligibleKeys(store)
    IN  IF Len(keys) = 0 THEN Effect(store, None)
        ELSE IF ~store.rotation.enabled THEN Effect(store, Some(keys[1].key))
        ELSE Effect(store,
                Some(keys[(BaseIndex(store.rotation.strategy, time) % Len(keys)) + 1].key))

\* mutant: the record is disabled but not flagged
disableGeminiKeyByValueNoFlag(store, key) ==
    LET i == IndexOfKey(store, key)
    IN  IF i = 0 THEN Effect(store, None)
        ELSE LET rec == [store.gemini[i] EXCEPT !.enabled = FALSE]
             IN  Effect([store EXCEPT !.gemini[i] = rec], Some(rec))

\* disableGeminiKeyByValue, lines 181-189
disableGeminiKeyByValue(store, key) ==
    LET i == IndexOfKey(store, key)
    IN  IF i = 0 THEN Effect(store, None)
        ELSE LET rec == [store.gemini[i] EXCEPT !.enabled = FALSE,
                                                 !.flagged = Some(TRUE)]
             IN  Effect([store EXCEPT !.gemini[i] = rec], Some(rec))

\* mutant: flagging also switches the record off, unflagging switches it on
setGeminiKeyFlaggedAndEnabled(store, id, flagged) ==
    LET i == IndexOfId(store, id)
    IN  IF i = 0 THEN Effect(store, None)
        ELSE LET found == [store.gemini[i] EXCEPT !.flagged = Some(flagged),
                                                   !.enabled = ~flagged]
             IN  Effect([store EXCEPT !.gemini[i] = found], Some(found))

\* setGeminiKeyFlagged, lines 192-199
setGeminiKeyFlagged(store, id, flagged) ==
    LET i == IndexOfId(store, id)
    IN  IF i = 0 THEN Effect(store, None)
        ELSE LET found == [store.gemini[i] EXCEPT !.flagged = Some(flagged)]
             IN  Effect([store EXCEPT !.gemini[i] = found], Some(found))

\* a call of the store: its name and arguments (unused arguments are fixed)
Call(op, id, key, flag, strategy, time) ==
    [op |-> op, id |-> id, key |-> key, flag |-> flag, strategy |-> strategy,
     time |-> time]

NoCall == Call("none", 0, <<>>, FALSE, "hourly", 0)
Idle == [busy |-> FALSE, call |-> NoCall, store |-> defaultStore, ret |-> None,
         stale |-> FALSE]

\* no store call has been made: the file does not exist yet
StoreIdle ==
    /\ file = None
    /\ nextId = 0
    /\ last = [call |-> NoCall, ret |-> None]
    /\ leaked = {}
    /\ procs = [p \in Procs |-> Idle]
    /\ flaggedIds = {}
    /\ staleWrite = FALSE

\* no conversion request is running
PipelineIdle ==
    /\ input = [pdfUri |-> <<"data:application/pdf;base64,">>, conversionMode |-> "ocr"]
    /\ pc = "start"
    /\ calls = [c \in {"pdfToWordPrompt", "pdfToWordPrompt15", "pdfToWordNoOcr",
                       "Packer.toBuffer"} |-> "idle"]
    /\ resp = [c \in {"pdfToWordPrompt", "pdfToWordPrompt15", "pdfToWordNoOcr",
                      "Packer.toBuffer"} |-> None]
    /\ err = None
    /\ err2 = None
    /\ result = None
    /\ e = None
    /\ children = None
    /\ outcome = [status |-> "pending", value |-> None, error |-> None]

StoreInit == PipelineIdle /\ StoreIdle

\* One store function run by the single server process: synchronous, so it
\* runs from readStore to writeStore without interruption.
Run(call, effect) ==
    /\ file' = Some(effect.store)
    /\ last' = [call |-> call, ret |-> effect.ret]
    /\ UNCHANGED <<procs, flaggedIds, staleWrite>>
    /\ UNCHANGED pipeVars

AddGeminiKey ==
    /\ nextId < MaxAdds
    /\ \E key \in KeyValues :
        /\ Run(Call("addGeminiKey", nextId + 1, key, FALSE, "hourly", 0),
               addGeminiKey(readStore(file), nextId + 1, key))
        /\ leaked' = leaked \ {key}
    /\ nextId' = nextId + 1

DeleteGeminiKey ==
    /\ \E id \in Ids :
        Run(Call("deleteGeminiKey", id, <<>>, FALSE, "hourly", 0),
            deleteGeminiKey(readStore(file), id))
    /\ UNCHANGED <<nextId, leaked>>

SetGeminiKeyEnabled ==
    /\ \E id \in Ids, enabled \in BOOLEAN :
        Run(Call("setGeminiKeyEnabled", id, <<>>, enabled, "hourly", 0),
            setGeminiKeyEnabled(readStore(file), id, enabled))
    /\ UNCHANGED <<nextId, leaked>>

SetGeminiRotationEnabled ==
    /\ \E enabled \in BOOLEAN :
        Run(Call("setGeminiRotationEnabled", 0, <<>>, enabled, "hourly", 0),
            setGeminiRotationEnabled(readStore(file), enabled))
    /\ UNCHANGED <<nextId, leaked>>

SetGeminiRotationStrategy ==
    /\ \E strategy \in Strategies :
        Run(Call("setGeminiRotationStrategy", 0, <<>>, FALSE, strategy, 0),
            setGeminiRotationStrategy(readStore(file), strategy))
    /\ UNCHANGED <<nextId, leaked>>

GetRotatingGeminiKey ==
    /\ \E time \in Times :
        Run(Call("getRotatingGeminiKey", 0, <<>>, FALSE, "hourly", time),
            getRotatingGeminiKey(readStore(file), time))
    /\ UNCHANGED <<nextId, leaked>>

DisableGeminiKeyByValue ==
    /\ \E key \in KeyValues :
        LET effect == disableGeminiKeyByValue(readStore(file), key)
        IN  /\ Run(Call("disableGeminiKeyByValue", 0, key, FALSE, "hourly", 0), effect)
            /\ leaked' = IF effect.ret # None THEN leaked \cup {key} ELSE leaked
    /\ UNCHANGED nextId

SetGeminiKeyFlagged ==
    /\ \E id \in Ids, flagged \in BOOLEAN :
        LET effect == setGeminiKeyFlagged(readStore(file), id, flagged)
        IN  /\ Run(Call("setGeminiKeyFlagged", id, <<>>, flagged, "hourly", 0), effect)
            /\ leaked' = IF effect.ret # None /\ ~flagged
                         THEN leaked \ {Get(effect.ret).key}
                         ELSE leaked
    /\ UNCHANGED nextId

StoreNext ==
    \/ AddGeminiKey
    \/ DeleteGeminiKey
    \/ SetGeminiKeyEnabled
    \/ SetGeminiRotationEnabled
    \/ SetGeminiRotationStrategy
    \/ GetRotatingGeminiKey
    \/ DisableGeminiKeyByValue
    \/ SetGeminiKeyFlagged

SpecStore == StoreInit /\ [][StoreNext]_vars

----------------------------------------------------------------------------
(* The store shared by several server processes.  Nothing locks the file, so
   between one process's readStore and its writeStore another process may
   read or write it. *)

\* the mutating calls a process may be making
RaceCalls ==
    {Call("addGeminiKey", 0, key, FALSE, "hourly", 0) : key \in KeyValues}
        \cup {Call("disableGeminiKeyByValue", 0, key, FALSE, "hourly", 0) : key \in KeyValues}
        \cup {Call("setGeminiKeyEnabled", id, <<>>, TRUE, "hourly", 0) : id \in Ids}

\* the function a call names, applied to the store the process has read
Apply(call, store, id) ==
    CASE call.op = "addGeminiKey" -> addGeminiKey(store, id, call.key)
      [] call.op = "disableGeminiKeyByValue" -> disableGeminiKeyByValue(store, call.key)
      [] OTHER -> setGeminiKeyEnabled(store, call.id, call.flag)

\* setGeminiKeyEnabled and disableGeminiKeyByValue return before writeStore
\* when they find no record (lines 127, 184)
Writes(call, ret) == call.op = "addGeminiKey" \/ ret # None

\* readStore and the change in memory: the process holds the changed store
BeginCall(p) ==
    /\ ~procs[p].busy
    /\ \E call \in RaceCalls :
        /\ call.op = "addGeminiKey" => nextId < MaxAdds
        /\ LET effect == Apply(call, readStore(file), nextId + 1)
           IN  procs' = [procs EXCEPT ![p] =
                            [busy |-> TRUE, call |-> call, store |-> effect.store,
                             ret |-> effect.ret, stale |-> FALSE]]
        /\ nextId' = IF call.op = "addGeminiKey" THEN nextId + 1 ELSE nextId
    /\ file' = Some(readStore(file))
    /\ UNCHANGED <<last, leaked, flaggedIds, staleWrite>>
    /\ UNCHANGED pipeVars

\* writeStore and return: the file becomes the store the process holds
EndCall(p) ==
    /\ procs[p].busy
    /\ LET mine == procs[p]
           writes == Writes(mine.call, mine.ret)
       IN  /\ file' = IF writes THEN Some(mine.store) ELSE file
           /\ procs' = [q \in Procs |->
                          IF q = p THEN Idle
                          ELSE IF writes /\ procs[q].busy
                               THEN [procs[q] EXCEPT !.stale = TRUE]
                               ELSE procs[q]]
           /\ staleWrite' = (staleWrite \/ (writes /\ mine.stale))
           /\ flaggedIds' =
                 IF mine.call.op = "disableGeminiKeyByValue" /\ mine.ret # None
                 THEN flaggedIds \cup {Get(mine.ret).id}
                 ELSE flaggedIds
    /\ UNCHANGED <<nextId, last, leaked>>
    /\ UNCHANGED pipeVars

RaceNext == \E p \in Procs : BeginCall(p) \/ EndCall(p)

SpecRace == StoreInit /\ [][RaceNext]_vars

----------------------------------------------------------------------------
(* pdfToWord, lines 181-316 *)

PrimaryCall == "pdfToWordPrompt"
SecondaryCall == "pdfToWordPrompt15"
NoOcrCall == "pdfToWordNoOcr"
PackerCall == "Packer.toBuffer"
Calls == {PrimaryCall, SecondaryCall, NoOcrCall, PackerCall}

Pending == [status |-> "pending", value |-> None, error |-> None]
Returned(out) == [status |-> "returned", value |-> Some(out), error |-> None]
Thrown(v) == [status |-> "thrown", value |-> None, error |-> Some(v)]

\* mutant: the mode compared with a misspelt literal
IsNoOcrTypo(in) == in.conversionMode = "no-ocr"

\* input.conversionMode === 'no_ocr'
IsNoOcr(in) == in.conversionMode = "no_ocr"

\* mutant: the fallback converter's error reported instead of the flow's
ConversionErrorFromFallback(flowErr, noOcrErr) == Error(ErrText(noOcrErr))

\* lines 196-199: what pdfToWord throws when the fallback converter failed too
ConversionError(flowErr, noOcrErr) == Error(MessageOrDefault(flowErr))

\* mutant: every new call also re-issues the primary prompt (a retry)
InvokeWithRetry(c) ==
    calls' = [calls EXCEPT ![c] = "inflight", !["pdfToWordPrompt"] = "inflight"]

Invoke(c) == calls' = [calls EXCEPT ![c] = "inflight"]
Answer(c, r) ==
    /\ calls[c] = "inflight"
    /\ resp' = [resp EXCEPT ![c] = Some(r)]

Init ==
    /\ input \in Inputs
    /\ pc = "start"
    /\ calls = [c \in Calls |-> "idle"]
    /\ resp = [c \in Calls |-> None]
    /\ err = None
    /\ err2 = None
    /\ result = None
    /\ e = None
    /\ children = None
    /\ outcome = Pending
    /\ StoreIdle

\* lines 185-191: mode selection; either the no-AI converter or the flow's
\* primary prompt is called and awaited
Start ==
    /\ pc = "start"
    /\ IF IsNoOcr(input)
       THEN /\ Invoke(NoOcrCall)
            /\ pc' = "awaitNoOcr"
       ELSE /\ Invoke(PrimaryCall)
            /\ pc' = "awaitPrimary"
    /\ UNCHANGED <<input, resp, err, err2, result, e, children, outcome>>
    /\ UNCHANGED storeVars

\* line 186: the no-AI converter's promise is returned as is
NoOcrAnswers ==
    /\ pc = "awaitNoOcr"
    /\ \E r \in NoOcrResponses :
        /\ Answer(NoOcrCall, r)
        /\ outcome' = IF r.kind = "throw" THEN Thrown(r.thrown) ELSE Returned(r.output)
    /\ calls' = [calls EXCEPT ![NoOcrCall] = "returned"]
    /\ pc' = "end"
    /\ UNCHANGED <<input, err, err2, result, e, children>>
    /\ UNCHANGED storeVars

\* lines 156-164: the primary prompt settles; the flow returns its output or
\* catches and calls the secondary prompt
PrimaryAnswers ==
    /\ pc = "awaitPrimary"
    /\ \E r \in ModelResponses :
        /\ Answer(PrimaryCall, r)
        /\ LET a == PromptCall(r)
               caught == TryPrimary(a)
           IN  IF caught = None
               THEN /\ result' = a.output
                    /\ calls' = [calls EXCEPT ![PrimaryCall] = "returned"]
                    /\ pc' = "flowReturned"
                    /\ UNCHANGED err
               ELSE /\ err' = caught
                    /\ calls' = [calls EXCEPT ![PrimaryCall] = "returned",
                                              ![SecondaryCall] = "inflight"]
                    /\ pc' = "awaitSecondary"
                    /\ UNCHANGED result
    /\ UNCHANGED <<input, err2, e, children, outcome>>
    /\ UNCHANGED storeVars

\* lines 164-176: the secondary prompt settles; the flow returns its output or
\* throws the combined Error, which pdfToWord catches as `e`
SecondaryAnswers ==
    /\ pc = "awaitSecondary"
    /\ \E r \in ModelResponses :
        /\ Answer(SecondaryCall, r)
        /\ LET a == PromptCall(r)
               caught == TrySecondary(a)
           IN  IF caught = None
               THEN /\ result' = a.output
                    /\ pc' = "flowReturned"
                    /\ UNCHANGED <<err2, e>>
               ELSE /\ err2' = caught
                    /\ e' = Some(FlowError(Get(err), Get(caught)))
                    /\ pc' = "flowThrew"
                    /\ UNCHANGED result
    /\ calls' = [calls EXCEPT ![SecondaryCall] = "returned"]
    /\ UNCHANGED <<input, err, children, outcome>>
    /\ UNCHANGED storeVars

\* lines 192-194: the catch of pdfToWord calls the no-AI converter
CatchFlowError ==
    /\ pc = "flowThrew"
    /\ Invoke(NoOcrCall)
    /\ pc' = "awaitFallback"
    /\ UNCHANGED <<input, resp, err, err2, result, e, children, outcome>>
    /\ UNCHANGED storeVars

\* lines 194-199: the fallback converter settles
FallbackAnswers ==
    /\ pc = "awaitFallback"
    /\ \E r \in NoOcrResponses :
        /\ Answer(NoOcrCall, r)
        /\ outcome' = IF r.kind = "throw"
                      THEN Thrown(ConversionError(Get(e), r.thrown))
                      ELSE Returned(r.output)
    /\ calls' = [calls EXCEPT ![NoOcrCall] = "returned"]
    /\ pc' = "end"
    /\ UNCHANGED <<input, err, err2, result, e, children>>
    /\ UNCHANGED storeVars

\* lines 204-310: the blocks are assembled and the document is handed to the
\* packer
AssembleAndPack ==
    /\ pc = "flowReturned"
    /\ children' = Some(SectionChildren(Get(result)))
    /\ Invoke(PackerCall)
    /\ pc' = "awaitPacker"
    /\ UNCHANGED <<input, resp, err, err2, result, e, outcome>>
    /\ UNCHANGED storeVars

\* lines 310-315: the packer's buffer is returned as the data URI
PackerAnswers ==
    /\ pc = "awaitPacker"
    /\ Answer(PackerCall, Document(Get(children)))
    /\ calls' = [calls EXCEPT ![PackerCall] = "returned"]
    /\ outcome' = Returned(Output(Document(Get(children))))
    /\ pc' = "end"
    /\ UNCHANGED <<input, err, err2, result, e, children>>
    /\ UNCHANGED storeVars

\* The assembly on its own (lines 204-310), applied to any extraction result,
\* also one whose structure types are outside the enum: the switch has a
\* default arm.
AssemblerNodes ==
    Nodes \cup
    { StructNode("footer", None, Some(<<<<"a">>, <<"b">>>>), None, None, None),
      StructNode("footer", None, Some(<<>>), None, None, None),
      StructNode("header", None, None, None, None, None),
      StructNode("paragraph", None, Some(<<>>), None, None, None) }

AssemblerInputs ==
    { [content |-> c, structure |-> st] :
        c \in SeqsUpTo(ContentItems, 1), st \in SeqsUpTo(AssemblerNodes, MaxStruct) }

AssembleInit ==
    /\ input = [pdfUri |-> <<"data:application/pdf;base64,">>, conversionMode |-> "ocr"]
    /\ pc = "flowReturned"
    /\ calls = [c \in Calls |-> "idle"]
    /\ resp = [c \in Calls |-> None]
    /\ err = None
    /\ err2 = None
    /\ result \in {Some(r) : r \in AssemblerInputs}
    /\ e = None
    /\ children = None
    /\ outcome = Pending
    /\ StoreIdle

AssembleNext == AssembleAndPack \/ PackerAnswers

SpecAssemble == AssembleInit /\ [][AssembleNext]_vars

Next ==
    \/ Start
    \/ NoOcrAnswers
    \/ PrimaryAnswers
    \/ SecondaryAnswers
    \/ CatchFlowError
    \/ FallbackAnswers
    \/ AssembleAndPack
    \/ PackerAnswers

Spec == Init /\ [][Next]_vars

----------------------------------------------------------------------------
(* Vocabulary of the properties, in terms of what the collaborators answered *)

AiMode == input.conversionMode # "no_ocr"
Answered(c) == IsSome(resp[c])

\* the model call answered a schema-valid payload
Succeeded(c) ==
    /\ Answered(c)
    /\ Get(resp[c]).kind = "data"
    /\ \A i \in 1..Len(Get(resp[c]).data.structure) :
          Get(resp[c]).data.structure[i].type \in StructTypes

\* the model call completed without a schema-valid payload
Failed(c) == Answered(c) /\ ~Succeeded(c)

\* the model call answered, but nothing or a payload the schema rejects
AbsentOrInvalid(c) == Failed(c) /\ Get(resp[c]).kind # "throw"

NoOcrFailed == Answered(NoOcrCall) /\ Get(resp[NoOcrCall]).kind = "throw"

Ended == pc = "end"
Done == Ended /\ outcome.status = "returned"
RequestFailed == Ended /\ outcome.status = "thrown"

\* sub occurs in msg at index i
OccursAt(msg, sub, i) ==
    /\ i >= 1
    /\ i + Len(sub) - 1 <= Len(msg)
    /\ SubSeq(msg, i, i + Len(sub) - 1) = sub

Occurs(msg, sub) == \E i \in 1..(Len(msg) + 1) : OccursAt(msg, sub, i)

\* the message of a thrown value: an Error's message, else its string form
MessageOf(v) == IF v.isError THEN v.message ELSE v.str

----------------------------------------------------------------------------
(* C1 *)

\* C1: in a request whose conversionMode is 'no_ocr' neither model is ever
\* invoked, and the request's outcome is the no-AI converter's outcome: its
\* output verbatim, or its error.
C1_NoOcrNeverInvokesModels ==
    input.conversionMode = "no_ocr" =>
        /\ calls[PrimaryCall] = "idle"
        /\ calls[SecondaryCall] = "idle"
        /\ calls[PackerCall] = "idle"
        /\ Ended =>
            /\ Answered(NoOcrCall)
            /\ LET r == Get(resp[NoOcrCall])
               IN  IF r.kind = "throw"
                   THEN outcome = Thrown(r.thrown)
                   ELSE outcome = Returned(r.output)

C1_Witness ==
    /\ input.conversionMode = "no_ocr"
    /\ RequestFailed
    /\ NoOcrFailed

----------------------------------------------------------------------------
(* C2 *)

\* C2: the two model calls are never in flight together; the secondary is
\* invoked only once the primary's call has completed with a failure, never
\* when the primary succeeded; extraction fails only after both were tried.
C2_ModelCallsSequential ==
    /\ ~(calls[PrimaryCall] = "inflight" /\ calls[SecondaryCall] = "inflight")
    /\ calls[SecondaryCall] # "idle" =>
          calls[PrimaryCall] = "returned" /\ Failed(PrimaryCall)
    /\ Succeeded(PrimaryCall) => calls[SecondaryCall] = "idle"
    /\ IsSome(e) =>
          /\ calls[PrimaryCall] = "returned" /\ Failed(PrimaryCall)
          /\ calls[SecondaryCall] = "returned" /\ Failed(SecondaryCall)

C2_Witness ==
    /\ calls[SecondaryCall] = "inflight"
    /\ Failed(PrimaryCall)

----------------------------------------------------------------------------
(* C3 *)

\* C3: in AI mode, when the primary call failed and the secondary answered a
\* schema-valid payload, the request proceeds to Done without the fallback
\* converter, and the document it returns is assembled from the secondary's
\* payload.
C3_SecondaryResultUsed ==
    (AiMode /\ Failed(PrimaryCall) /\ Succeeded(SecondaryCall)) =>
        /\ result = Some(Get(resp[SecondaryCall]).data)
        /\ e = None
        /\ calls[NoOcrCall] = "idle"
        /\ pc \in {"flowReturned", "awaitPacker", "end"}
        /\ pc = "flowReturned" => ENABLED AssembleAndPack
        /\ pc = "awaitPacker" => ENABLED PackerAnswers
        /\ pc # "flowReturned" =>
              children = Some(SectionChildren(Get(resp[SecondaryCall]).data))
        /\ Ended => outcome = Returned(Output(Document(Get(children))))

C3_Witness ==
    /\ Done
    /\ Failed(PrimaryCall)
    /\ Succeeded(SecondaryCall)
    /\ Get(resp[SecondaryCall]).data # EmptyResult

----------------------------------------------------------------------------
(* C4 *)

\* C4: when both attempts failed, the flow's error message contains the
\* primary attempt's message and then the secondary attempt's message, each
\* unmodified, and ends with the hint about the API key and network access.
C4_BothMessagesThenHint ==
    IsSome(e) =>
        LET msg == Get(e).message
            m1 == MessageOf(Get(err))
            m2 == MessageOf(Get(err2))
            r1 == Get(resp[PrimaryCall])
            r2 == Get(resp[SecondaryCall])
        IN  /\ r1.kind = "throw" => Get(err) = r1.thrown
            /\ r2.kind = "throw" => Get(err2) = r2.thrown
            /\ \E i, j \in 1..Len(msg) :
                  /\ OccursAt(msg, m1, i)
                  /\ OccursAt(msg, m2, j)
                  /\ i + Len(m1) <= j
                  /\ OccursAt(msg, Hint, Len(msg) - Len(Hint) + 1)
                  /\ j + Len(m2) <= Len(msg) - Len(Hint) + 1

C4_Witness ==
    /\ IsSome(e)
    /\ Get(resp[PrimaryCall]).kind = "throw"
    /\ Get(resp[SecondaryCall]).kind = "throw"
    /\ Get(err) # Get(err2)

----------------------------------------------------------------------------
(* C5 *)

\* C5: in AI mode a failed extraction is followed by the fallback converter;
\* if that fails too the request fails with one error whose message is the
\* extraction failure's message, in which the fallback converter's own
\* message does not appear.
C5_FallbackErrorSuppressed ==
    (AiMode /\ Failed(PrimaryCall) /\ Failed(SecondaryCall)) =>
        /\ pc \in {"flowThrew", "awaitFallback", "end"}
        /\ pc = "flowThrew" => ENABLED CatchFlowError
        /\ Ended => Answered(NoOcrCall)
        /\ (Ended /\ NoOcrFailed) =>
              /\ outcome.status = "thrown"
              /\ Get(outcome.error).isError
              /\ Get(outcome.error).message = Get(e).message
              /\ ~Occurs(Get(outcome.error).message,
                         MessageOf(Get(resp[NoOcrCall]).thrown))

C5_Witness ==
    /\ AiMode
    /\ RequestFailed
    /\ NoOcrFailed
    /\ IsSome(e)

----------------------------------------------------------------------------
(* C6 *)

ExtractionSucceeded == Succeeded(PrimaryCall) \/ Succeeded(SecondaryCall)
ExtractionFailed == Failed(PrimaryCall) /\ Failed(SecondaryCall)

\* C6: in AI mode the two paths exclude each other: after a successful
\* extraction the fallback converter is never invoked and the output is the
\* packaged assembly; after a failed extraction nothing is assembled or
\* packaged and the output, if any, is the fallback converter's, verbatim.
C6_PathsExclusive ==
    AiMode =>
        /\ ExtractionSucceeded =>
              /\ calls[NoOcrCall] = "idle"
              /\ e = None
              /\ Ended =>
                    /\ IsSome(children)
                    /\ calls[PackerCall] = "returned"
                    /\ resp[PackerCall] = Some(Document(Get(children)))
                    /\ outcome = Returned(Output(Get(resp[PackerCall])))
        /\ ExtractionFailed =>
              /\ children = None
              /\ result = None
              /\ calls[PackerCall] = "idle"
              /\ Done => outcome = Returned(Get(resp[NoOcrCall]).output)

C6_Witness ==
    /\ AiMode
    /\ ExtractionFailed
    /\ Done

C6_WitnessAssembled ==
    /\ AiMode
    /\ ExtractionSucceeded
    /\ Done

----------------------------------------------------------------------------
(* C7 *)

\* C7: in AI mode a request ends in Failed only when the primary model, the
\* secondary model and the no-AI fallback converter were each attempted and
\* each failed.
C7_FailedOnlyWhenExhausted ==
    (AiMode /\ RequestFailed) =>
        /\ calls[PrimaryCall] = "returned" /\ Failed(PrimaryCall)
        /\ calls[SecondaryCall] = "returned" /\ Failed(SecondaryCall)
        /\ calls[NoOcrCall] = "returned" /\ NoOcrFailed

C7_Witness ==
    /\ AiMode
    /\ RequestFailed
    /\ AbsentOrInvalid(PrimaryCall)
    /\ Get(resp[SecondaryCall]).kind = "throw"

----------------------------------------------------------------------------
(* C8 *)

\* C8: an absent or schema-invalid model response counts as a failed call:
\* after such a primary response the secondary is tried, after such a
\* secondary response extraction fails, and no absent or invalid payload ever
\* reaches assembly as the extraction result.
C8_InvalidResponseIsFailure ==
    /\ AbsentOrInvalid(PrimaryCall) =>
          /\ calls[SecondaryCall] # "idle"
          /\ IsSome(err)
    /\ AbsentOrInvalid(SecondaryCall) =>
          /\ IsSome(e)
          /\ result = None
          /\ children = None
    /\ pc \in {"flowReturned", "awaitPacker"} \/ IsSome(children) =>
          /\ IsSome(result)
          /\ \A i \in 1..Len(Get(result).structure) :
                Get(result).structure[i].type \in StructTypes
          /\ \E c \in {PrimaryCall, SecondaryCall} :
                Succeeded(c) /\ Get(result) = Get(resp[c]).data

C8_Witness ==
    /\ IsSome(e)
    /\ Get(resp[PrimaryCall]).kind = "nodata"
    /\ AbsentOrInvalid(SecondaryCall)
    /\ Get(resp[SecondaryCall]).kind = "data"

----------------------------------------------------------------------------
(* C9 *)

\* a structure node that yields a block: every node but a table without rows
Contributes(node) ==
    node.type = "table" => (IsSome(node.rows) /\ Get(node.rows) # <<>>)

\* the number of blocks the first n structure nodes yield
Rank(structure, n) == Cardinality({m \in 1..n : Contributes(structure[m])})

\* C9: the assembled sequence has one block per contributing structure node
\* plus one per content item; the structure blocks come first, in structure
\* order, then the content blocks in content order, whatever the position
\* metadata says.
C9_StructureThenContent ==
    IsSome(children) =>
        LET res == Get(result)
            blocks == Get(children)
            k == Rank(res.structure, Len(res.structure))
        IN  /\ Len(blocks) = k + Len(res.content)
            /\ \A i \in 1..Len(res.structure) :
                  Contributes(res.structure[i]) =>
                      <<blocks[Rank(res.structure, i)]>> = StructBlocks(res.structure[i])
            /\ \A i \in 1..Len(res.content) :
                  blocks[k + i] = ContentParagraph(res.content[i])

PageOf(node) ==
    IF IsSome(node.position) /\ IsSome(Get(node.position).page)
    THEN Get(Get(node.position).page)
    ELSE 0

\* full-length structure whose pages run against its order,
\* and content behind them
C9_Witness ==
    /\ IsSome(children)
    /\ Len(Get(result).content) = MaxContent
    /\ Len(Get(result).structure) = MaxStruct
    /\ PageOf(Get(result).structure[1]) > PageOf(Get(result).structure[MaxStruct])
    /\ PageOf(Get(result).structure[MaxStruct]) > 0
    /\ Len(Get(children)) = MaxStruct + MaxContent

C9_WitnessEmpty ==
    /\ IsSome(children)
    /\ Get(result).content = <<>>
    /\ \E i \in 1..Len(Get(result).structure) : ~Contributes(Get(result).structure[i])
    /\ Len(Get(children)) < Len(Get(result).structure)

----------------------------------------------------------------------------
(* C10 *)

\* the level the claim expects: the node's level when within 1..6, else 1
ClampedLevel(node) ==
    IF IsSome(node.level) /\ Get(node.level) \in 1..6 THEN Get(node.level) ELSE 1

\* C10: every heading node renders with its level clamped into 1..6: an
\* absent level, 0, 7 or any other out-of-range level render as level 1, a
\* level within 1..6 unchanged.
C10_HeadingLevelClamped ==
    IsSome(children) =>
        LET res == Get(result)
            blocks == Get(children)
        IN  \A i \in 1..Len(res.structure) :
                res.structure[i].type = "heading" =>
                    LET b == blocks[Rank(res.structure, i)]
                    IN  /\ b.heading = Some(ClampedLevel(res.structure[i]))
                        /\ b.children[1].size =
                              Some(HeadingBaseSize - ClampedLevel(res.structure[i]) * 2)

\* what does hold: absent and 0 render as level 1, 1..6 unchanged
C10_InRangeOrFalsy ==
    IsSome(children) =>
        LET res == Get(result)
            blocks == Get(children)
        IN  \A i \in 1..Len(res.structure) :
                (/\ res.structure[i].type = "heading"
                 /\ (res.structure[i].level = None \/ Get(res.structure[i].level) \in 0..6)) =>
                    blocks[Rank(res.structure, i)].heading
                        = Some(ClampedLevel(res.structure[i]))

----------------------------------------------------------------------------
(* C11 *)

NonEmptyTable(node) ==
    node.type = "table" /\ IsSome(node.rows) /\ Len(Get(node.rows)) > 0
EmptyTable(node) == node.type = "table" /\ ~NonEmptyTable(node)

\* C11: a table node with rows yields a table block with as many rows, each
\* with as many cells as the node's row, the cell texts in order and nothing
\* padded; a table node whose rows are empty or absent yields no block.
C11_TableFidelity ==
    IsSome(children) =>
        LET res == Get(result)
            blocks == Get(children)
            n == Len(res.structure)
        IN  /\ \A i \in 1..n :
                  NonEmptyTable(res.structure[i]) =>
                      LET rows == Get(res.structure[i].rows)
                          b == blocks[Rank(res.structure, i)]
                      IN  /\ b.kind = "table"
                          /\ Len(b.rows) = Len(rows)
                          /\ \A r \in 1..Len(rows) :
                                /\ Len(b.rows[r].children) = Len(rows[r])
                                /\ \A c \in 1..Len(rows[r]) :
                                      b.rows[r].children[c].children
                                          = <<Paragraph(None, <<PlainRun(rows[r][c])>>)>>
            /\ Cardinality({j \in 1..Len(blocks) : blocks[j].kind = "table"})
                  = Cardinality({i \in 1..n : NonEmptyTable(res.structure[i])})
            /\ Len(blocks)
                  = n - Cardinality({i \in 1..n : EmptyTable(res.structure[i])})
                      + Len(res.content)

\* the ragged table [["a","b"],["c"]] next to a table without rows
C11_Witness ==
    /\ IsSome(children)
    /\ Len(Get(result).structure) = 2
    /\ \E i, j \in 1..2 :
          /\ NonEmptyTable(Get(result).structure[i])
          /\ Len(Get(Get(result).structure[i].rows)[1]) = 2
          /\ Len(Get(Get(result).structure[i].rows)[2]) = 1
          /\ EmptyTable(Get(result).structure[j])
    /\ Len(Get(children)) = 1 + Len(Get(result).content)

----------------------------------------------------------------------------
(* C12 *)

DedicatedTypes == {"heading", "list", "table", "image", "page_break"}

\* the items joined by a space, written position by position (every item of
\* the nodes assembled here is one token long)
SpaceJoined(items) ==
    [i \in 1..(IF Len(items) = 0 THEN 0 ELSE 2 * Len(items) - 1) |->
        IF i % 2 = 1 THEN items[(i + 1) \div 2][1] ELSE " "]

\* C12: a node whose type has no arm of its own (paragraph, section_break,
\* any unrecognised type) is never dropped and yields exactly one plain-text
\* block: its items joined by a space, the empty string without items.
C12_DefaultArmPlainText ==
    IsSome(children) =>
        LET res == Get(result)
            blocks == Get(children)
        IN  \A i \in 1..Len(res.structure) :
                res.structure[i].type \notin DedicatedTypes =>
                    LET node == res.structure[i]
                        at == Rank(res.structure, i)
                        before == IF i = 1 THEN 0 ELSE Rank(res.structure, i - 1)
                    IN  /\ at = before + 1
                        /\ at <= Len(blocks) - Len(res.content)
                        /\ blocks[at].kind = "paragraph"
                        /\ blocks[at].heading = None
                        /\ Len(blocks[at].children) = 1
                        /\ blocks[at].children[1]
                              = PlainRun(IF IsSome(node.items)
                                         THEN SpaceJoined(Get(node.items))
                                         ELSE <<>>)

\* an unrecognised type with two items, behind one without items
C12_Witness ==
    /\ IsSome(children)
    /\ Len(Get(result).structure) = 2
    /\ Get(result).structure[1].type = "header"
    /\ Get(result).structure[1].items = None
    /\ Get(result).structure[2].type = "footer"
    /\ Get(result).structure[2].items = Some(<<<<"a">>, <<"b">>>>)
    /\ Get(children)[2].children[1].text = <<"a", " ", "b">>

----------------------------------------------------------------------------
(* C17 *)

\* the order in which a request passes through its positions
PcRank(p) ==
    CASE p = "start" -> 0
      [] p \in {"awaitNoOcr", "awaitPrimary"} -> 1
      [] p = "awaitSecondary" -> 2
      [] p \in {"flowReturned", "flowThrew"} -> 3
      [] p \in {"awaitPacker", "awaitFallback"} -> 4
      [] OTHER -> 5

\* C17: a request runs once from start to Done or Failed: no position is
\* revisited, each of the primary model, the secondary model and the
\* fallback converter is invoked at most once, and as long as the request
\* has not ended a next step is possible (so it ends once every call returns).
C17_RunsOnceToTheEnd ==
    /\ [](/\ Ended \/ ENABLED Next
          /\ Ended => outcome.status \in {"returned", "thrown"}
          /\ ~Ended => outcome.status = "pending")
    /\ [][/\ PcRank(pc') > PcRank(pc)
          /\ \A c \in {"pdfToWordPrompt", "pdfToWordPrompt15", "pdfToWordNoOcr"} :
                /\ calls[c] = "inflight" => calls'[c] \in {"inflight", "returned"}
                /\ calls[c] = "returned" => calls'[c] = "returned" /\ resp'[c] = resp[c]
                /\ calls'[c] = "inflight" => calls[c] \in {"idle", "inflight"}]_vars

C17_Witness ==
    /\ RequestFailed
    /\ calls["pdfToWordPrompt"] = "returned"
    /\ calls["pdfToWordPrompt15"] = "returned"
    /\ calls["pdfToWordNoOcr"] = "returned"

----------------------------------------------------------------------------
(* C18 *)

\* a colour without its leading '#'
WithoutHash(color) ==
    IF color # <<>> /\ Head(color) = "#" THEN Tail(color) ELSE color

\* C18: the run of a content item has twice the item's fontSize as size when
\* fontSize is present and 22 when it is absent; text, bold, italic and the
\* colour (without the leading '#') are carried unchanged.
C18_RunCarriesItem ==
    IsSome(children) =>
        LET res == Get(result)
            blocks == Get(children)
            k == Len(blocks) - Len(res.content)
        IN  \A i \in 1..Len(res.content) :
                LET item == res.content[i]
                    run == blocks[k + i].children[1]
                IN  /\ run.size = Some(IF IsSome(item.fontSize)
                                       THEN 2 * Get(item.fontSize)
                                       ELSE DefaultSize)
                    /\ run.text = item.text
                    /\ run.bold = item.bold
                    /\ run.italics = item.italic
                    /\ run.color = IF IsSome(item.color)
                                   THEN Some(WithoutHash(Get(item.color)))
                                   ELSE None

\* what does hold: a non-zero fontSize and a colour that starts with '#'
C18_HashColourNonZeroSize ==
    IsSome(children) =>
        LET res == Get(result)
            blocks == Get(children)
            k == Len(blocks) - Len(res.content)
        IN  \A i \in 1..Len(res.content) :
                LET item == res.content[i]
                    run == blocks[k + i].children[1]
                IN  /\ (item.fontSize # Some(0)) =>
                          run.size = Some(IF IsSome(item.fontSize)
                                          THEN 2 * Get(item.fontSize)
                                          ELSE DefaultSize)
                    /\ run.text = item.text
                    /\ run.bold = item.bold
                    /\ run.italics = item.italic
                    /\ (IsSome(item.color) => Head(Get(item.color)) = "#") =>
                          run.color = IF IsSome(item.color)
                                      THEN Some(WithoutHash(Get(item.color)))
                                      ELSE None

----------------------------------------------------------------------------
(* Vocabulary of the store claims *)

\* the store as the next call would read it
Stored == readStore(file)

\* the positions of the records that are enabled and not flagged
Eligible(store) ==
    {i \in 1..Len(store.gemini) :
        store.gemini[i].enabled /\ store.gemini[i].flagged # Some(TRUE)}

\* the n-th smallest element of a set of positions
Nth(S, n) == CHOOSE i \in S : Cardinality({j \in S : j < i}) = n - 1

\* the bucket a time falls in: the b with b * length <= time < (b + 1) * length
Bucket(time, length) ==
    CHOOSE b \in 0..((MaxHour + 1) * (HourMs \div length)) :
        b * length <= time /\ time < (b + 1) * length

BucketLength(strategy) == IF strategy = "minute" THEN MinuteMs ELSE HourMs

LastWas(op) == last.call.op = op

----------------------------------------------------------------------------
(* C13 *)

\* C13: with rotation enabled and N > 0 eligible records, getRotatingGeminiKey
\* returns the key of the eligible record at index (bucket mod N), the bucket
\* being the clock hour of the time (the minute with the minute strategy);
\* every time of the same bucket gives the same key.
C13_BucketModN ==
    (LastWas("getRotatingGeminiKey") /\ Stored.rotation.enabled
        /\ Eligible(Stored) # {}) =>
            LET n == Cardinality(Eligible(Stored))
                length == BucketLength(Stored.rotation.strategy)
                b == Bucket(last.call.time, length)
            IN  /\ last.ret = Some(Stored.gemini[Nth(Eligible(Stored), (b % n) + 1)].key)
                /\ \A t \in Times :
                      Bucket(t, length) = b =>
                          getRotatingGeminiKey(Stored, t).ret = last.ret

\* two eligible records with different keys, hourly strategy, a time late in
\* the second hour: the second record's key
C13_Witness ==
    /\ LastWas("getRotatingGeminiKey")
    /\ Stored.rotation = [enabled |-> TRUE, strategy |-> "hourly"]
    /\ Cardinality(Eligible(Stored)) = 2
    /\ Stored.gemini[1].key # Stored.gemini[2].key
    /\ last.call.time = 2 * HourMs - 1
    /\ last.ret = Some(Stored.gemini[2].key)

----------------------------------------------------------------------------
(* C14 *)

\* C14: getRotatingGeminiKey returns none exactly when no record is enabled
\* and not flagged, and otherwise the key of such a record.
C14_OnlyEligibleKeys ==
    LastWas("getRotatingGeminiKey") =>
        /\ (last.ret = None) <=> (Eligible(Stored) = {})
        /\ last.ret # None =>
              \E i \in Eligible(Stored) : last.ret = Some(Stored.gemini[i].key)

\* a key is returned while another record is enabled but flagged
C14_Witness ==
    /\ LastWas("getRotatingGeminiKey")
    /\ last.ret # None
    /\ \E i \in 1..Len(Stored.gemini) :
          /\ Stored.gemini[i].enabled
          /\ Stored.gemini[i].flagged = Some(TRUE)
          /\ last.ret # Some(Stored.gemini[i].key)

----------------------------------------------------------------------------
(* C15 *)

\* the flag set by a completed disableGeminiKeyByValue is no longer in the file
FlagLost(id) ==
    /\ id \in flaggedIds
    /\ \A i \in 1..Len(Stored.gemini) :
          Stored.gemini[i].id = id => Stored.gemini[i].flagged # Some(TRUE)

\* C15: nothing orders one process's readStore..writeStore against another's,
\* and a completed disableGeminiKeyByValue loses its flag only in this way:
\* by the write of a call that had read the store before another call wrote.
C15_LostOnlyByStaleWrite == (\E id \in Ids : FlagLost(id)) => staleWrite

\* the lost update: every call has returned, disableGeminiKeyByValue returned
\* the record, and the file holds that record enabled and not flagged
C15_Witness ==
    /\ \A p \in Procs : ~procs[p].busy
    /\ \E id \in flaggedIds :
          \E i \in 1..Len(Stored.gemini) :
              /\ Stored.gemini[i].id = id
              /\ Stored.gemini[i].enabled
              /\ Stored.gemini[i].flagged # Some(TRUE)

----------------------------------------------------------------------------
(* C16 *)

\* C16: once disableGeminiKeyByValue(k) has returned a record, and until k is
\* added again or a record holding k is unflagged, getRotatingGeminiKey does
\* not return k.
C16_LeakedKeyNeverReturned ==
    (LastWas("getRotatingGeminiKey") /\ last.ret # None) =>
        Get(last.ret) \notin leaked

----------------------------------------------------------------------------
(* C19 *)

\* a record with its flagged field left out
WithoutFlag(rec) == [rec EXCEPT !.flagged = None]

\* C19: setGeminiKeyFlagged(id, flagged) leaves the rotation configuration,
\* the number and order of the records, every record of another id and
\* every field but flagged of the record with that id as they were; that
\* record's flagged field becomes the argument.
C19_OnlyFlaggedChanges ==
    [][last'.call.op = "setGeminiKeyFlagged" =>
          LET before == readStore(file)
              after == readStore(file')
              id == last'.call.id
          IN  /\ after.rotation = before.rotation
              /\ Len(after.gemini) = Len(before.gemini)
              /\ \A i \in 1..Len(before.gemini) :
                    IF before.gemini[i].id = id
                    THEN /\ WithoutFlag(after.gemini[i]) = WithoutFlag(before.gemini[i])
                         /\ after.gemini[i].flagged = Some(last'.call.flag)
                    ELSE after.gemini[i] = before.gemini[i]]_vars

\* an enabled record has been flagged and is still enabled, next to another
C19_Witness ==
    /\ LastWas("setGeminiKeyFlagged")
    /\ last.call.flag
    /\ Len(Stored.gemini) = 2
    /\ \E i \in 1..2 :
          /\ Stored.gemini[i].id = last.call.id
          /\ Stored.gemini[i].enabled
          /\ Stored.gemini[i].flagged = Some(TRUE)
          /\ last.ret = Some(Stored.gemini[i])

----------------------------------------------------------------------------
(* C20 *)

\* the call is aimed at a record the store does not hold
Misses(call, store) ==
    CASE call.op \in {"setGeminiKeyEnabled", "setGeminiKeyFlagged", "deleteGeminiKey"} ->
            \A i \in 1..Len(store.gemini) : store.gemini[i].id # call.id
      [] call.op = "disableGeminiKeyByValue" ->
            \A i \in 1..Len(store.gemini) : store.gemini[i].key # call.key
      [] OTHER -> FALSE

\* C20: setGeminiKeyEnabled and setGeminiKeyFlagged with an unknown id and
\* disableGeminiKeyByValue with an unknown key return null, deleteGeminiKey
\* with an unknown id returns false, and the key list and the rotation
\* configuration read after the call are those read before it.
C20_MissChangesNothing ==
    [][Misses(last'.call, readStore(file)) =>
          /\ IF last'.call.op = "deleteGeminiKey"
             THEN last'.ret = FALSE
             ELSE last'.ret = None
          /\ readStore(file') = readStore(file)]_vars

\* deleteGeminiKey has missed in a store that holds records
C20_Witness ==
    /\ LastWas("deleteGeminiKey")
    /\ Len(Stored.gemini) > 0
    /\ \A i \in 1..Len(Stored.gemini) : Stored.gemini[i].id # last.call.id
    /\ last.ret = FALSE

====
